---- MODULE Spec2Model ----
(***************************************************************************)
(* fswatch: watch directory trees and, per trigger, restart a command      *)
(* when a matching file changes (src/fswatch.go).                          *)
(*                                                                         *)
(* Three specifications share the module:                                  *)
(*   Spec / FairSpec  the running program: watch pipeline, fan-out bus,    *)
(*                    trigger engines, child processes, shutdown;          *)
(*   SpecFix          fixFWConfig applied to bounded raw configurations;   *)
(*   SpecWalk         WatchPathAndChildren / ListAllDir over a small tree. *)
(***************************************************************************)
EXTENDS Integers, Sequences, FiniteSets, TLC

(***************************************************************************)
(* Generic helpers                                                         *)
(***************************************************************************)
Nil == "nil"

IsPrefix(s, t) == Len(s) <= Len(t) /\ SubSeq(t, 1, Len(s)) = s

Range(s) == {s[i] : i \in 1..Len(s)}

(***************************************************************************)
(* Configuration fix-up (fixFWConfig) and what it calls                    *)
(***************************************************************************)

\* The six entries of the signalMaps literal: name, signal, signal number.
BaseSignals ==
    { [name |-> "INT",  sig |-> "SIGINT",  num |-> 2],
      [name |-> "HUP",  sig |-> "SIGHUP",  num |-> 1],
      [name |-> "QUIT", sig |-> "SIGQUIT", num |-> 3],
      [name |-> "TRAP", sig |-> "SIGTRAP", num |-> 5],
      [name |-> "TERM", sig |-> "SIGTERM", num |-> 15],
      [name |-> "KILL", sig |-> "SIGKILL", num |-> 9] }

\* One pass of init()'s loop body over a set of entries: for key, val it adds
\* "SIG"+key and Sprintf("%d", val).
InitPass(entries) ==
    { [name |-> "SIG" \o e.name, sig |-> e.sig, num |-> e.num] : e \in entries }
    \cup { [name |-> ToString(e.num), sig |-> e.sig, num |-> e.num] : e \in entries }

\* signalMaps after init().  The loop ranges over the map it inserts into; Go
\* leaves it open whether a range visits entries added during it, so the
\* entries added in the first pass may (visitsNew) or may not be visited too.
signalMaps(visitsNew) ==
    LET first == BaseSignals \cup InitPass(BaseSignals)
    IN  IF visitsNew THEN first \cup InitPass(first) ELSE first

\* signalMaps[name]: the zero value (a nil os.Signal) for a missing key.
LookupSignal(visitsNew, name) ==
    LET hits == { e \in signalMaps(visitsNew) : e.name = name }
    IN  IF hits = {} THEN Nil ELSE (CHOOSE e \in hits : TRUE).sig

\* time.ParseDuration on a string given as a sequence of characters, in
\* milliseconds; fractions and units under a millisecond are not in the
\* alphabet of the bounded inputs.
IsDigit(c) == c \in {"0", "1", "5"}

DigitVal(c) == CASE c = "0" -> 0 [] c = "1" -> 1 [] c = "5" -> 5

\* leading integer: the longest prefix of digits
RECURSIVE DigitsLen(_)
DigitsLen(s) ==
    IF s = <<>> \/ ~IsDigit(Head(s)) THEN 0 ELSE 1 + DigitsLen(Tail(s))

RECURSIVE DigitsVal(_, _)
DigitsVal(s, acc) ==
    IF s = <<>> THEN acc ELSE DigitsVal(Tail(s), acc * 10 + DigitVal(Head(s)))

\* the unit: everything up to the next digit
RECURSIVE UnitLen(_)
UnitLen(s) ==
    IF s = <<>> \/ IsDigit(Head(s)) THEN 0 ELSE 1 + UnitLen(Tail(s))

\* unitMap, in milliseconds
UnitMs(u) ==
    CASE u = <<"m", "s">> -> 1
      [] u = <<"s">>      -> 1000
      [] u = <<"m">>      -> 60000
      [] OTHER            -> 0

\* the loop "for s != ''": one number and one unit at a time
RECURSIVE ParseGroups(_, _)
ParseGroups(s, d) ==
    IF s = <<>> THEN [err |-> FALSE, d |-> d]
    ELSE LET n == DigitsLen(s)
             rest == SubSeq(s, n + 1, Len(s))
             u == UnitLen(rest)
             unit == SubSeq(rest, 1, u)
         IN  IF n = 0 \/ u = 0 \/ UnitMs(unit) = 0
             THEN [err |-> TRUE, d |-> 0]
             ELSE ParseGroups(SubSeq(rest, u + 1, Len(rest)),
                              d + DigitsVal(SubSeq(s, 1, n), 0) * UnitMs(unit))

ParseDuration(str) ==
    LET signed == str # <<>> /\ Head(str) \in {"-", "+"}
        neg == signed /\ Head(str) = "-"
        s == IF signed THEN Tail(str) ELSE str
    IN  IF s = <<"0">> THEN [err |-> FALSE, d |-> 0]
        ELSE IF s = <<>> THEN [err |-> TRUE, d |-> 0]
        ELSE LET r == ParseGroups(s, 0)
             IN  IF r.err THEN r
                 ELSE [err |-> FALSE, d |-> IF neg THEN 0 - r.d ELSE r.d]

\* The body of fixFWConfig's loop for one trigger.  ReadIgnore reads the
\* patterns from an in-memory buffer and returns no error for them.
FixTrigger(visitsNew, tg) ==
    LET delay == IF tg.Delay = <<>> THEN <<"1", "0", "0", "m", "s">> ELSE tg.Delay
        pd == ParseDuration(delay)
        signal == IF tg.Signal = "" THEN "HUP" ELSE tg.Signal
    IN  IF pd.err
        THEN [err |-> TRUE,
              tg |-> [tg EXCEPT !.Delay = delay, !.delayDuration = pd.d]]
        ELSE [err |-> FALSE,
              tg |-> [tg EXCEPT !.Delay = delay, !.delayDuration = pd.d,
                                !.Signal = signal,
                                !.killSignal = LookupSignal(visitsNew, signal)]]

\* The loop over in.Triggers: it returns at the first trigger that fails,
\* leaving the later ones as they were.
RECURSIVE FixTriggers(_, _, _)
FixTriggers(visitsNew, tgs, i) ==
    IF i > Len(tgs) THEN [err |-> FALSE, tgs |-> tgs]
    ELSE LET r == FixTrigger(visitsNew, tgs[i])
             tgs2 == [tgs EXCEPT ![i] = r.tg]
         IN  IF r.err THEN [err |-> TRUE, tgs |-> tgs2]
             ELSE FixTriggers(visitsNew, tgs2, i + 1)

fixFWConfig(visitsNew, in) ==
    LET r == FixTriggers(visitsNew, in.Triggers, 1)
    IN  IF r.err
        THEN [err |-> TRUE, out |-> [in EXCEPT !.Triggers = r.tgs]]
        ELSE [err |-> FALSE,
              out |-> [in EXCEPT !.Triggers = r.tgs,
                                 !.WatchPaths = IF in.WatchPaths = <<>>
                                                THEN << <<".">> >>
                                                ELSE in.WatchPaths,
                                 !.WatchDepth = IF in.WatchDepth = 0
                                                THEN 5 ELSE in.WatchDepth]]

(***************************************************************************)
(* Paths, the directory walk (ListAllDir) and the initial registration     *)
(* (WatchPathAndChildren).  A path is a string over the tokens "/", "."    *)
(* and letter runs ("sub", "git"), so that ".git" is <<".", "git">> and    *)
(* "./sub" is <<".", "/", "sub">>.                                         *)
(***************************************************************************)
Sep == "/"

\* strings.Count(path, string(os.PathSeparator))
RECURSIVE NumSeps(_)
NumSeps(p) ==
    IF p = <<>> THEN 0
    ELSE (IF Head(p) = Sep THEN 1 ELSE 0) + NumSeps(Tail(p))

\* the elements between separators, empty ones dropped
RECURSIVE SplitPath(_, _)
SplitPath(p, cur) ==
    IF p = <<>> THEN (IF cur = <<>> THEN <<>> ELSE <<cur>>)
    ELSE IF Head(p) = Sep
         THEN (IF cur = <<>> THEN <<>> ELSE <<cur>>) \o SplitPath(Tail(p), <<>>)
         ELSE SplitPath(Tail(p), Append(cur, Head(p)))

RECURSIVE JoinElems(_)
JoinElems(es) ==
    IF es = <<>> THEN <<>>
    ELSE IF Len(es) = 1 THEN es[1]
    ELSE es[1] \o <<Sep>> \o JoinElems(Tail(es))

\* filepath.Clean's pass over the elements: "." is dropped, ".." removes the
\* element before it (or is dropped at the root, or kept when nothing is left)
RECURSIVE CleanElems(_, _, _)
CleanElems(es, out, rooted) ==
    IF es = <<>> THEN out
    ELSE LET e == Head(es)
         IN  IF e = <<".">> THEN CleanElems(Tail(es), out, rooted)
             ELSE IF e = <<".", ".">>
                  THEN IF out # <<>> /\ out[Len(out)] # <<".", ".">>
                       THEN CleanElems(Tail(es), SubSeq(out, 1, Len(out) - 1), rooted)
                       ELSE IF rooted THEN CleanElems(Tail(es), out, rooted)
                       ELSE CleanElems(Tail(es), Append(out, e), rooted)
                  ELSE CleanElems(Tail(es), Append(out, e), rooted)

Clean(p) ==
    LET rooted == p # <<>> /\ Head(p) = Sep
        body == JoinElems(CleanElems(SplitPath(p, <<>>), <<>>, rooted))
    IN  IF rooted THEN <<Sep>> \o body
        ELSE IF body = <<>> THEN <<".">> ELSE body

\* filepath.Join(dir, name)
Join(dir, name) == Clean(dir \o <<Sep>> \o name)

\* os.FileInfo.Name() of Lstat(path): the last element of the path
BaseName(p) ==
    LET es == SplitPath(p, <<>>)
    IN  IF es = <<>> THEN <<Sep>> ELSE es[Len(es)]

\* strings.HasPrefix(base, ".")
HasDotPrefix(base) == base # <<>> /\ Head(base) = "."

\* The directories below every watched root, by their names relative to the
\* root, each list in the lexical order filepath.Walk reads them in.
TreeChildren(rel) ==
    CASE rel = <<>>                                      -> << <<".", "git">>, <<"sub">> >>
      [] rel = << <<".", "git">> >>                      -> << <<"hooks">> >>
      [] rel = << <<"sub">> >>                           -> << <<"sub2">> >>
      [] rel = << <<"sub">>, <<"sub2">> >>               -> << <<"sub3">> >>
      [] OTHER                                           -> <<>>

\* ListAllDir's walk function on one directory: SkipDir, or nil after
\* appending the path
WalkSkips(path, base, baseNumSeps, depth) ==
    \/ (base # <<".">> /\ HasDotPrefix(base))
    \/ NumSeps(path) - baseNumSeps > depth

\* filepath.Walk below one directory: the function is called on it, then on
\* its children (joined with filepath.Join) unless it returned SkipDir
RECURSIVE WalkDir(_, _, _, _, _)
RECURSIVE WalkChildren(_, _, _, _, _)
WalkDir(path, rel, base, baseNumSeps, depth) ==
    IF WalkSkips(path, base, baseNumSeps, depth) THEN <<>>
    ELSE <<path>> \o WalkChildren(path, rel, TreeChildren(rel), baseNumSeps, depth)

WalkChildren(path, rel, names, baseNumSeps, depth) ==
    IF names = <<>> THEN <<>>
    ELSE WalkDir(Join(path, Head(names)), Append(rel, Head(names)), Head(names),
                 baseNumSeps, depth)
         \o WalkChildren(path, rel, Tail(names), baseNumSeps, depth)

ListAllDir(path, depth) ==
    WalkDir(path, <<>>, BaseName(path), NumSeps(path), depth)

\* watchDir over a list of directories: w.Add for those not visited yet
RECURSIVE WatchDirs(_, _)
WatchDirs(dirs, st) ==
    IF dirs = <<>> THEN st
    ELSE LET d == Head(dirs)
         IN  IF d \in st.visits THEN WatchDirs(Tail(dirs), st)
             ELSE WatchDirs(Tail(dirs),
                            [visits |-> st.visits \cup {d},
                             added  |-> Append(st.added, d)])

\* One iteration of WatchPathAndChildren's loop over paths
WatchOnePath(path, depth, st) ==
    IF path \in st.visits THEN st
    ELSE WatchDirs(<<path>> \o ListAllDir(path, depth), st)

(***************************************************************************)
(* The running program                                                     *)
(***************************************************************************)

\* File and directory names that notifications carry
MainGo == <<"main", ".", "go">>
Readme == <<"README", ".", "md">>
SubDir == <<"sub">>

Files == {MainGo, Readme}
Dirs == {SubDir}
Names == Files \cup Dirs

\* The configuration document the program was started with
RawConfig ==
    [Triggers |->
        << [Name |-> "build", Pattens |-> << <<"*", ".", "go">> >>,
            Delay |-> <<"5", "0", "m", "s">>, Signal |-> "",
            delayDuration |-> 0, killSignal |-> Nil],
           [Name |-> "all", Pattens |-> << <<"*">>, <<"!", "sub">> >>,
            Delay |-> <<>>, Signal |-> "KILL",
            delayDuration |-> 0, killSignal |-> Nil] >>,
     WatchPaths |-> <<>>,
     WatchDepth |-> 1]

\* main: what readFWConfig returns for it
ReadConfig == fixFWConfig(FALSE, RawConfig).out

\* the triggers, by their index in fwc.Triggers
Triggers == DOMAIN RawConfig.Triggers

\* filepath.Match on one path element: "*" matches any run of characters
RECURSIVE GlobMatch(_, _)
GlobMatch(pat, s) ==
    IF pat = <<>> THEN s = <<>>
    ELSE IF Head(pat) = "*"
         THEN \E k \in 0..Len(s) : GlobMatch(Tail(pat), SubSeq(s, k + 1, Len(s)))
         ELSE s # <<>> /\ Head(s) = Head(pat) /\ GlobMatch(Tail(pat), Tail(s))

\* ignore.Matches(file, patterns): the rules in order, a later rule overrides
\* an earlier one, "!" re-includes
RECURSIVE MatchRules(_, _, _)
MatchRules(file, patterns, matched) ==
    IF patterns = <<>> THEN matched
    ELSE LET p == Head(patterns)
             negative == p # <<>> /\ Head(p) = "!"
             pat == IF negative THEN Tail(p) ELSE p
         IN  MatchRules(file, Tail(patterns),
                        IF GlobMatch(pat, file) THEN ~negative ELSE matched)

Matches(file, patterns) == MatchRules(file, patterns, FALSE)

\* --- times -------------------------------------------------------------
\* the zero time.Time a missing key of fileModifyTimeMap reads as (ms)
ZeroTime == -100000

\* the debounce window of IsChanged (ms)
DebounceWindow == 100

\* modification times os.Stat can report (ms)
Mtimes == {1000, 1100, 1201}

\* what os.Stat returns: an error, or the modification time
StatResults ==
    {[err |-> TRUE, mtime |-> ZeroTime]}
    \cup {[err |-> FALSE, mtime |-> m] : m \in Mtimes}

\* how far one Tick advances the clock (ms)
TickMs == 50

\* number of filesystem notifications the watcher delivers
MaxNotify == 2

Ops == {"Create", "Write", "Remove", "Rename", "Chmod"}

VARIABLES
    fwc,                \* main: the fixed-up configuration
    quota,              \* notifications the watcher delivers in this run
    visits,             \* main: the visits map WatchPathAndChildren filled
    disk,               \* the directories that exist below the watched root
    prog,               \* "running", "exited" (main returned), "crashed" (panic)
    sigCaught,          \* the signal goroutine has received from sigOS
    ingress,            \* evtC / globalEventC: [buf, closed]
    egress,             \* evtChannls: per trigger [buf, closed]
    te,                 \* transformEvent: [pc, evt]
    nnotif,             \* notifications read from fsw.Events so far
    fileModifyTimeMap,  \* name -> last accepted modification time
    watches,            \* directories registered with the fsnotify watcher
    bus,                \* drainEvent's goroutine: [pc, i, evt]
    pc,                 \* per trigger: "init", "loop", "sleep", "done"
    kcmd,               \* per trigger: this.kcmd, NoCmd or [st, reaped]
    orphans,            \* per trigger: live processes whose handle was dropped
    slept,              \* per trigger: ms spent in time.Sleep so far
    lastTerm,           \* per trigger: what the Stop before this sleep (or the
                        \* final Stop) called Terminate on; "none" otherwise
    accepted,           \* history: names IsChanged accepted, in order
    recvd,              \* history: per trigger, names received from its channel
    nstarts,            \* history: per trigger, calls of Start
    nstops,             \* history: per trigger, calls of Stop
    fix,                \* SpecFix: [visitsNew, in, res]
    walk                \* SpecWalk: [paths, depth, i, st]

rtvars == <<fwc, quota, visits, disk, prog, sigCaught, ingress, egress, te, nnotif, fileModifyTimeMap,
            watches, bus, pc, kcmd, orphans, slept, lastTerm, accepted, recvd,
            nstarts, nstops>>

vars == <<rtvars, fix, walk>>

ChanCap == 1

EmptyChan == [buf |-> <<>>, closed |-> FALSE]

\* main: the directories registered before the pipeline starts
RECURSIVE WatchPathAndChildren(_, _, _, _)
WatchPathAndChildren(paths, depth, i, st) ==
    IF i > Len(paths) THEN st
    ELSE WatchPathAndChildren(paths, depth, i + 1, WatchOnePath(paths[i], depth, st))

InitWatches(c) ==
    WatchPathAndChildren(c.WatchPaths, c.WatchDepth, 1,
                         [visits |-> {}, added |-> <<>>]).visits

\* a nil *kexec.KCommand
NoCmd == [st |-> "nil", reaped |-> FALSE]

IdleFix == [phase |-> "idle"]
IdleWalk == [phase |-> "idle"]

\* the program as main has set it up, q notifications to come
InitProgram(q) ==
    /\ fwc = ReadConfig
    /\ quota = q
    /\ visits = InitWatches(ReadConfig)
    /\ disk = Range(TreeChildren(<<>>))
    /\ prog = "running"
    /\ sigCaught = FALSE
    /\ ingress = EmptyChan
    /\ egress = [t \in Triggers |-> EmptyChan]
    /\ te = [pc |-> "recv", evt |-> <<>>]
    /\ nnotif = 0
    /\ fileModifyTimeMap = [n \in Names |-> ZeroTime]
    /\ watches = InitWatches(ReadConfig)
    /\ bus = [pc |-> "recv", i |-> 1, evt |-> <<>>]
    /\ pc = [t \in Triggers |-> "init"]
    /\ kcmd = [t \in Triggers |-> NoCmd]
    /\ orphans = [t \in Triggers |-> 0]
    /\ slept = [t \in Triggers |-> 0]
    /\ lastTerm = [t \in Triggers |-> "none"]
    /\ accepted = <<>>
    /\ recvd = [t \in Triggers |-> <<>>]
    /\ nstarts = [t \in Triggers |-> 0]
    /\ nstops = [t \in Triggers |-> 0]

InitRuntime == InitProgram(MaxNotify)

Init == InitRuntime /\ fix = IdleFix /\ walk = IdleWalk

\* --- child processes and the exit waiter --------------------------------
\* A handle is [st, reaped]: st is "failed" (cmd.Start returned an error, no
\* process), "running", "exited" (the process exited by itself, with any
\* code) or "killed" (a signal ended it); reaped says that the waiter's
\* cmd.Wait has returned and set ProcessState.
Running(h) == h.st = "running"

\* this.kcmd.ProcessState != nil && this.kcmd.ProcessState.Exited()
ObservedExited(h) == h.reaped /\ h.st = "exited"

\* TriggerEvent.Start: the handles cmd.Start can leave in this.kcmd
StartResults ==
    { [st |-> "running", reaped |-> FALSE], [st |-> "failed", reaped |-> FALSE] }

\* TriggerEvent.Stop on handle h with orph live processes already let go:
\* the handle is dropped; unless the exit was observed, Terminate is called
\* (term: the state of its target), and a process that is still running then
\* lives on without a handle until the signal, or anything else, ends it.
Stop(h, orph, term) ==
    IF h = NoCmd THEN [kcmd |-> h, orphans |-> orph, term |-> term]
    ELSE IF ObservedExited(h) THEN [kcmd |-> NoCmd, orphans |-> orph, term |-> term]
    ELSE [kcmd |-> NoCmd,
          orphans |-> IF Running(h) THEN orph + 1 ELSE orph,
          term |-> h.st]

\* the process of trigger t exits by itself
ProcExit(t) ==
    /\ Running(kcmd[t])
    /\ kcmd' = [kcmd EXCEPT ![t].st = "exited"]
    /\ UNCHANGED <<fwc, quota, visits, disk, prog, sigCaught, ingress, egress, te, nnotif, fileModifyTimeMap,
                   watches, bus, pc, orphans, slept, lastTerm, accepted, recvd,
                   nstarts, nstops, fix, walk>>

\* a signal ends the process of trigger t
ProcKilled(t) ==
    /\ Running(kcmd[t])
    /\ kcmd' = [kcmd EXCEPT ![t].st = "killed"]
    /\ UNCHANGED <<fwc, quota, visits, disk, prog, sigCaught, ingress, egress, te, nnotif, fileModifyTimeMap,
                   watches, bus, pc, orphans, slept, lastTerm, accepted, recvd,
                   nstarts, nstops, fix, walk>>

\* a process that Stop signalled and let go of ends
OrphanEnd(t) ==
    /\ orphans[t] > 0
    /\ orphans' = [orphans EXCEPT ![t] = @ - 1]
    /\ UNCHANGED <<fwc, quota, visits, disk, prog, sigCaught, ingress, egress, te, nnotif, fileModifyTimeMap,
                   watches, bus, pc, kcmd, slept, lastTerm, accepted, recvd,
                   nstarts, nstops, fix, walk>>

\* Start's goroutine: cmd.Wait returns once the process has ended
Waiter(t) ==
    /\ prog = "running"
    /\ kcmd[t].st \in {"exited", "killed"}
    /\ ~kcmd[t].reaped
    /\ kcmd' = [kcmd EXCEPT ![t].reaped = TRUE]
    /\ UNCHANGED <<fwc, quota, visits, disk, prog, sigCaught, ingress, egress, te, nnotif, fileModifyTimeMap,
                   watches, bus, pc, orphans, slept, lastTerm, accepted, recvd,
                   nstarts, nstops, fix, walk>>

\* --- trigger engine: TriggerEvent.WatchEvent -----------------------------
Patterns(t) == fwc.Triggers[t].Pattens

DelayOf(t) == fwc.Triggers[t].delayDuration

\* WatchEventInit with a failed cmd.Start ending the program
WatchEventInit_FatalStart(t) ==
    /\ prog = "running"
    /\ pc[t] = "init"
    /\ \E h \in StartResults :
          /\ kcmd' = [kcmd EXCEPT ![t] = h]
          /\ prog' = IF h.st = "failed" THEN "crashed" ELSE prog
    /\ nstarts' = [nstarts EXCEPT ![t] = @ + 1]
    /\ pc' = [pc EXCEPT ![t] = "loop"]
    /\ UNCHANGED <<fwc, quota, visits, disk, sigCaught, ingress, egress, te, nnotif,
                   fileModifyTimeMap, watches, bus, orphans, slept, lastTerm,
                   accepted, recvd, nstops, fix, walk>>

\* this.Start() before the loop
WatchEventInit(t) ==
    /\ prog = "running"
    /\ pc[t] = "init"
    /\ \E h \in StartResults : kcmd' = [kcmd EXCEPT ![t] = h]
    /\ nstarts' = [nstarts EXCEPT ![t] = @ + 1]
    /\ pc' = [pc EXCEPT ![t] = "loop"]
    /\ UNCHANGED <<fwc, quota, visits, disk, prog, sigCaught, ingress, egress, te, nnotif, fileModifyTimeMap,
                   watches, bus, orphans, slept, lastTerm, accepted, recvd,
                   nstops, fix, walk>>

\* WatchEventRecv without the "if !isMatch { continue }": every event restarts
WatchEventRecv_NoFilter(t) ==
    /\ prog = "running"
    /\ pc[t] = "loop"
    /\ egress[t].buf # <<>>
    /\ egress' = [egress EXCEPT ![t].buf = Tail(@)]
    /\ recvd' = [recvd EXCEPT ![t] = Append(@, Head(egress[t].buf))]
    /\ LET r == Stop(kcmd[t], orphans[t], lastTerm[t])
       IN  /\ kcmd' = [kcmd EXCEPT ![t] = r.kcmd]
           /\ orphans' = [orphans EXCEPT ![t] = r.orphans]
           /\ lastTerm' = [lastTerm EXCEPT ![t] = r.term]
    /\ nstops' = [nstops EXCEPT ![t] = @ + 1]
    /\ slept' = [slept EXCEPT ![t] = 0]
    /\ pc' = [pc EXCEPT ![t] = "sleep"]
    /\ UNCHANGED <<fwc, quota, visits, disk, prog, sigCaught, ingress, te, nnotif, fileModifyTimeMap,
                   watches, bus, accepted, nstarts, fix, walk>>

\* one iteration of "for evt := range evtC" up to time.Sleep: the event is
\* taken from the channel; if it does not match, continue; else Stop, and
\* the engine goes to sleep
WatchEventRecv(t) ==
    /\ prog = "running"
    /\ pc[t] = "loop"
    /\ egress[t].buf # <<>>
    /\ LET evt == Head(egress[t].buf)
       IN  /\ egress' = [egress EXCEPT ![t].buf = Tail(@)]
           /\ recvd' = [recvd EXCEPT ![t] = Append(@, evt)]
           /\ IF ~Matches(evt, Patterns(t))
              THEN UNCHANGED <<pc, kcmd, orphans, slept, lastTerm, nstops>>
              ELSE LET r == Stop(kcmd[t], orphans[t], lastTerm[t])
                   IN  /\ kcmd' = [kcmd EXCEPT ![t] = r.kcmd]
                       /\ orphans' = [orphans EXCEPT ![t] = r.orphans]
                       /\ lastTerm' = [lastTerm EXCEPT ![t] = r.term]
                       /\ nstops' = [nstops EXCEPT ![t] = @ + 1]
                       /\ slept' = [slept EXCEPT ![t] = 0]
                       /\ pc' = [pc EXCEPT ![t] = "sleep"]
    /\ UNCHANGED <<fwc, quota, visits, disk, prog, sigCaught, ingress, te, nnotif, fileModifyTimeMap,
                   watches, bus, accepted, nstarts, fix, walk>>

\* WatchEventWake without the time.Sleep: Start right after Stop
WatchEventWake_NoSleep(t) ==
    /\ prog = "running"
    /\ pc[t] = "sleep"
    /\ \E h \in StartResults : kcmd' = [kcmd EXCEPT ![t] = h]
    /\ nstarts' = [nstarts EXCEPT ![t] = @ + 1]
    /\ pc' = [pc EXCEPT ![t] = "loop"]
    /\ slept' = [slept EXCEPT ![t] = 0]
    /\ lastTerm' = [lastTerm EXCEPT ![t] = "none"]
    /\ UNCHANGED <<fwc, quota, visits, disk, prog, sigCaught, ingress, egress, te, nnotif, fileModifyTimeMap,
                   watches, bus, orphans, accepted, recvd,
                   nstops, fix, walk>>

\* time.Sleep(this.delayDuration) returns, then this.Start()
WatchEventWake(t) ==
    /\ prog = "running"
    /\ pc[t] = "sleep"
    /\ slept[t] >= DelayOf(t)
    /\ \E h \in StartResults : kcmd' = [kcmd EXCEPT ![t] = h]
    /\ nstarts' = [nstarts EXCEPT ![t] = @ + 1]
    /\ pc' = [pc EXCEPT ![t] = "loop"]
    /\ slept' = [slept EXCEPT ![t] = 0]
    /\ lastTerm' = [lastTerm EXCEPT ![t] = "none"]
    /\ UNCHANGED <<fwc, quota, visits, disk, prog, sigCaught, ingress, egress, te, nnotif, fileModifyTimeMap,
                   watches, bus, orphans, accepted, recvd,
                   nstops, fix, walk>>

\* the range loop ends on the closed, drained channel: Stop, wg.Done
WatchEventClosed(t) ==
    /\ prog = "running"
    /\ pc[t] = "loop"
    /\ egress[t].buf = <<>>
    /\ egress[t].closed
    /\ LET r == Stop(kcmd[t], orphans[t], lastTerm[t])
       IN  /\ kcmd' = [kcmd EXCEPT ![t] = r.kcmd]
           /\ orphans' = [orphans EXCEPT ![t] = r.orphans]
           /\ lastTerm' = [lastTerm EXCEPT ![t] = r.term]
    /\ nstops' = [nstops EXCEPT ![t] = @ + 1]
    /\ pc' = [pc EXCEPT ![t] = "done"]
    /\ UNCHANGED <<fwc, quota, visits, disk, prog, sigCaught, ingress, egress, te, nnotif, fileModifyTimeMap,
                   watches, bus, slept, accepted, recvd, nstarts, fix, walk>>

\* the clock advances while some engine is in time.Sleep
Tick ==
    /\ prog = "running"
    /\ \E t \in Triggers : pc[t] = "sleep" /\ slept[t] < DelayOf(t)
    /\ slept' = [t \in Triggers |->
                    IF pc[t] = "sleep" /\ slept[t] < DelayOf(t)
                    THEN slept[t] + TickMs ELSE slept[t]]
    /\ UNCHANGED <<fwc, quota, visits, disk, prog, sigCaught, ingress, egress, te, nnotif, fileModifyTimeMap,
                   watches, bus, pc, kcmd, orphans, lastTerm, accepted, recvd,
                   nstarts, nstops, fix, walk>>

\* --- watch pipeline: transformEvent and IsChanged ------------------------
\* IsChanged(path) when os.Stat gives stat: the answer and the map afterwards
IsChanged(map, path, stat) ==
    IF stat.err THEN [changed |-> TRUE, map |-> map]
    ELSE IF stat.mtime - map[path] > DebounceWindow
         THEN [changed |-> TRUE, map |-> [map EXCEPT ![path] = stat.mtime]]
         ELSE [changed |-> FALSE, map |-> map]

\* One iteration of transformEvent's loop up to the send: a notification
\* (op, name) is read from fsw.Events; isDir is what IsDirectory's os.Stat
\* finds, stat what IsChanged's os.Stat finds.
TransformStep(op, name, isDir, stat) ==
    /\ prog = "running"
    /\ te.pc = "recv"
    /\ nnotif < quota
    /\ nnotif' = nnotif + 1
    /\ IF op = "Create" /\ isDir
       THEN /\ watches' = watches \cup {name}
            /\ UNCHANGED <<te, fileModifyTimeMap, accepted>>
       ELSE IF op = "Remove"
       THEN /\ watches' = watches \ {name}
            /\ UNCHANGED <<te, fileModifyTimeMap, accepted>>
       ELSE LET r == IsChanged(fileModifyTimeMap, name, stat)
            IN  /\ fileModifyTimeMap' = r.map
                /\ watches' = watches
                /\ IF r.changed
                   THEN /\ te' = [pc |-> "send", evt |-> name]
                        /\ accepted' = Append(accepted, name)
                   ELSE UNCHANGED <<te, accepted>>
    /\ UNCHANGED <<fwc, quota, visits, prog, sigCaught, ingress, egress, bus, pc, kcmd,
                   orphans, slept, lastTerm, recvd, nstarts, nstops, fix, walk>>

\* a notification about a path whose change leaves the directories as they are
TransformRecv(op, name, isDir, stat) ==
    /\ TransformStep(op, name, isDir, stat)
    /\ UNCHANGED disk

\* "evtC <- FSEvent{...}": a send on the closed channel panics, and the
\* panic ends the program; else the send waits for room in the buffer
TransformSend ==
    /\ prog = "running"
    /\ te.pc = "send"
    /\ IF ingress.closed
       THEN /\ prog' = "crashed"
            /\ UNCHANGED <<ingress, te>>
       ELSE /\ Len(ingress.buf) < ChanCap
            /\ ingress' = [ingress EXCEPT !.buf = Append(@, te.evt)]
            /\ te' = [pc |-> "recv", evt |-> <<>>]
            /\ prog' = prog
    /\ UNCHANGED <<fwc, quota, visits, disk, sigCaught, egress, nnotif, fileModifyTimeMap, watches, bus,
                   pc, kcmd, orphans, slept, lastTerm, accepted, recvd,
                   nstarts, nstops, fix, walk>>

\* --- fan-out bus: the goroutine of drainEvent ----------------------------
\* BusRecv leaving the loop as soon as the channel is closed, buffered
\* events or not
BusRecv_EarlyClose ==
    /\ prog = "running"
    /\ bus.pc = "recv"
    /\ IF ingress.closed
       THEN /\ bus' = [pc |-> "close", i |-> 1, evt |-> <<>>]
            /\ ingress' = ingress
       ELSE /\ ingress.buf # <<>>
            /\ bus' = [pc |-> "send", i |-> 1, evt |-> Head(ingress.buf)]
            /\ ingress' = [ingress EXCEPT !.buf = Tail(@)]
    /\ UNCHANGED <<fwc, quota, visits, disk, prog, sigCaught, egress, te, nnotif,
                   fileModifyTimeMap, watches, pc, kcmd, orphans, slept, lastTerm,
                   accepted, recvd, nstarts, nstops, fix, walk>>

\* "for evt := range globalEventC": the next event, or the end of the loop
\* once the channel is closed and drained
BusRecv ==
    /\ prog = "running"
    /\ bus.pc = "recv"
    /\ IF ingress.buf # <<>>
       THEN /\ bus' = [pc |-> "send", i |-> 1, evt |-> Head(ingress.buf)]
            /\ ingress' = [ingress EXCEPT !.buf = Tail(@)]
       ELSE /\ ingress.closed
            /\ bus' = [pc |-> "close", i |-> 1, evt |-> <<>>]
            /\ ingress' = ingress
    /\ UNCHANGED <<fwc, quota, visits, disk, prog, sigCaught, egress, te, nnotif, fileModifyTimeMap,
                   watches, pc, kcmd, orphans, slept, lastTerm, accepted, recvd,
                   nstarts, nstops, fix, walk>>

\* "eC <- evt" for the next channel of evtChannls
BusSend ==
    /\ prog = "running"
    /\ bus.pc = "send"
    /\ Len(egress[bus.i].buf) < ChanCap
    /\ egress' = [egress EXCEPT ![bus.i].buf = Append(@, bus.evt)]
    /\ bus' = IF bus.i + 1 \in Triggers
              THEN [bus EXCEPT !.i = @ + 1]
              ELSE [pc |-> "recv", i |-> 1, evt |-> <<>>]
    /\ UNCHANGED <<fwc, quota, visits, disk, prog, sigCaught, ingress, te, nnotif, fileModifyTimeMap,
                   watches, pc, kcmd, orphans, slept, lastTerm, accepted, recvd,
                   nstarts, nstops, fix, walk>>

\* "close(eC)" for the next channel of evtChannls
BusClose ==
    /\ prog = "running"
    /\ bus.pc = "close"
    /\ egress' = [egress EXCEPT ![bus.i].closed = TRUE]
    /\ bus' = IF bus.i + 1 \in Triggers
              THEN [bus EXCEPT !.i = @ + 1]
              ELSE [pc |-> "done", i |-> 1, evt |-> <<>>]
    /\ UNCHANGED <<fwc, quota, visits, disk, prog, sigCaught, ingress, te, nnotif, fileModifyTimeMap,
                   watches, pc, kcmd, orphans, slept, lastTerm, accepted, recvd,
                   nstarts, nstops, fix, walk>>

\* --- shutdown: main ------------------------------------------------------
\* the signal goroutine: "sig := <-sigOS", then close(evtC)
CatchSignal ==
    /\ prog = "running"
    /\ ~sigCaught
    /\ sigCaught' = TRUE
    /\ ingress' = [ingress EXCEPT !.closed = TRUE]
    /\ UNCHANGED <<fwc, quota, visits, disk, prog, egress, te, nnotif, fileModifyTimeMap, watches, bus,
                   pc, kcmd, orphans, slept, lastTerm, accepted, recvd,
                   nstarts, nstops, fix, walk>>

\* wg.Wait() returns when every engine has called wg.Done; main returns
MainExit ==
    /\ prog = "running"
    /\ \A t \in Triggers : pc[t] = "done"
    /\ prog' = "exited"
    /\ UNCHANGED <<fwc, quota, visits, disk, sigCaught, ingress, egress, te, nnotif, fileModifyTimeMap,
                   watches, bus, pc, kcmd, orphans, slept, lastTerm, accepted,
                   recvd, nstarts, nstops, fix, walk>>

\* The notifications the filesystem watcher can deliver
AllNotes ==
    { n \in [op : Ops, name : Names, isDir : BOOLEAN, stat : StatResults] :
        n.isDir => (n.name \in Dirs /\ ~n.stat.err) }

\* Writes to the watched files only, the files being readable
FileWrites ==
    { n \in AllNotes : n.op = "Write" /\ n.name \in Files
                        /\ n.stat.mtime \in {1000, 1201} }

Notify(notes) ==
    \E n \in notes : TransformRecv(n.op, n.name, n.isDir, n.stat)

\* the goroutines of the program
Program ==
    \/ TransformSend
    \/ BusRecv
    \/ BusSend
    \/ BusClose
    \/ CatchSignal
    \/ MainExit
    \/ Tick
    \/ \E t \in Triggers :
          \/ WatchEventInit(t)
          \/ WatchEventRecv(t)
          \/ WatchEventWake(t)
          \/ WatchEventClosed(t)
          \/ Waiter(t)

\* the child processes
ChildProcs ==
    \E t \in Triggers :
        \/ ProcExit(t)
        \/ ProcKilled(t)
        \/ OrphanEnd(t)

\* Spec: the engines, their processes and the shutdown, under file writes
Next ==
    \/ Notify(FileWrites)
    \/ Program
    \/ ChildProcs

Spec == Init /\ [][Next]_vars

\* SpecFilter: the watch pipeline under every kind of notification, the
\* child processes running until they exit by themselves
NextFilter ==
    \/ Notify(AllNotes)
    \/ Program
    \/ \E t \in Triggers : ProcExit(t)

SpecFilter == Init /\ [][NextFilter]_vars

\* The Go scheduler runs every runnable goroutine and the clock advances;
\* nothing is assumed of the filesystem, the operator or the child processes.
Fairness ==
    /\ WF_vars(TransformSend)
    /\ WF_vars(BusRecv)
    /\ WF_vars(BusSend)
    /\ WF_vars(BusClose)
    /\ WF_vars(MainExit)
    /\ WF_vars(Tick)
    /\ \A t \in Triggers :
          /\ WF_vars(WatchEventInit(t))
          /\ WF_vars(WatchEventRecv(t))
          /\ WF_vars(WatchEventWake(t))
          /\ WF_vars(WatchEventClosed(t))
          /\ WF_vars(Waiter(t))

FairSpec == Spec /\ Fairness

(***************************************************************************)
(* Claims about the running program                                        *)
(***************************************************************************)

\* live processes started by trigger t
AliveCount(t) == orphans[t] + (IF Running(kcmd[t]) THEN 1 ELSE 0)

\* C1: at most one process started by a trigger is alive at any instant; at
\* every Start of a replacement the process started before has exited.
C1_AtMostOneLive == \A t \in Triggers : AliveCount(t) <= 1

\* C2: the program exits only after every engine has run its final Stop,
\* and then no process started by any trigger is still running.
C2_ExitLeavesNoProcess ==
    prog = "exited" =>
        \A t \in Triggers : pc[t] = "done" /\ kcmd[t] = NoCmd /\ AliveCount(t) = 0

ShutdownComplete ==
    /\ prog = "exited"
    /\ ingress.closed
    /\ \A t \in Triggers : egress[t].closed /\ pc[t] = "done"

\* C3: once the signal is received the shutdown always completes: every
\* egress channel is closed, every engine stops its process and terminates,
\* and main returns.
C3_ShutdownCompletes == sigCaught ~> ShutdownComplete

\* C4: what a trigger has received is always a prefix of what the filter
\* accepted, and all of it once the trigger has seen its channel closed.
C4_DeliveredInOrder ==
    \A t \in Triggers :
        /\ IsPrefix(recvd[t], accepted)
        /\ pc[t] = "done" => recvd[t] = accepted

Last(q) == q[Len(q)]

\* trigger t takes an event from its channel in this step, matching or not
ReceivesMatch(t) ==
    recvd'[t] # recvd[t] /\ Matches(Last(recvd'[t]), Patterns(t))

ReceivesNoMatch(t) ==
    recvd'[t] # recvd[t] /\ ~Matches(Last(recvd'[t]), Patterns(t))

\* C6: on a matching event the engine stops the current process (Terminate
\* is called on it if it is still running), then sleeps at least the
\* configured delay, receiving nothing and stopping nothing meanwhile, then
\* starts a new process; a Start after the first comes only out of that
\* sleep, with the old handle dropped and the delay elapsed.
C6_StopDelayStart ==
    [][\A t \in Triggers :
        /\ ReceivesMatch(t) =>
              /\ pc[t] = "loop" /\ pc'[t] = "sleep" /\ slept'[t] = 0
              /\ nstops'[t] = nstops[t] + 1 /\ nstarts'[t] = nstarts[t]
              /\ kcmd'[t] = NoCmd
              /\ Running(kcmd[t]) => lastTerm'[t] = "running"
        /\ pc[t] = "sleep" =>
              /\ recvd'[t] = recvd[t] /\ nstops'[t] = nstops[t]
              /\ pc'[t] \in {"sleep", "loop"}
              /\ pc'[t] = "loop" <=> nstarts'[t] = nstarts[t] + 1
        /\ (nstarts'[t] # nstarts[t] /\ nstarts[t] > 0) =>
              /\ pc[t] = "sleep" /\ kcmd[t] = NoCmd
              /\ nstops[t] = nstarts[t]
              /\ slept[t] >= DelayOf(t)
              /\ kcmd'[t] # NoCmd
      ]_vars

\* a trigger restarted its process after signalling the running one
C6_Witness ==
    \E t \in Triggers :
        nstarts[t] = 2 /\ nstops[t] = 1 /\ pc[t] = "loop" /\ orphans[t] = 1

\* C7: an event that does not match is discarded: the handle, the processes,
\* the engine's position and its Start and Stop counts stay as they were.
C7_NoMatchDiscarded ==
    [][\A t \in Triggers :
        ReceivesNoMatch(t) =>
            /\ pc[t] = "loop" /\ pc'[t] = "loop"
            /\ kcmd'[t] = kcmd[t] /\ orphans'[t] = orphans[t]
            /\ lastTerm'[t] = lastTerm[t] /\ slept'[t] = slept[t]
            /\ nstarts'[t] = nstarts[t] /\ nstops'[t] = nstops[t]
      ]_vars

\* a trigger that received only a non-matching event still runs its first process
C7_Witness ==
    \E t \in Triggers :
        /\ recvd[t] = <<Readme>> /\ ~Matches(Readme, Patterns(t))
        /\ pc[t] = "loop" /\ Running(kcmd[t]) /\ nstarts[t] = 1 /\ nstops[t] = 0

\* C5: a notification is forwarded only when the path's modification time
\* exceeds the stored time by more than the window, and forwarding it stores
\* that time; so of notifications inside the window only the first is
\* forwarded, for every path, readable or not.
C5_Debounce ==
    [][accepted' # accepted =>
          LET n == Last(accepted')
          IN  fileModifyTimeMap'[n] - fileModifyTimeMap[n] > DebounceWindow
      ]_vars

\* the changes accepted so far are one burst: each path once, and their
\* modification times inside one window
OneBurst ==
    /\ \A i, j \in DOMAIN accepted : accepted[i] = accepted[j] => i = j
    /\ \A n, m \in Range(accepted) :
          fileModifyTimeMap[n] - fileModifyTimeMap[m] <= DebounceWindow

\* C13: a burst of changes restarts a trigger's process once: after its
\* first Start the trigger has started a process at most one more time.
C13_BurstOneRestart ==
    OneBurst => \A t \in Triggers : nstarts[t] <= 2

\* C14: Stop calls Terminate only on a process that is still alive, never
\* on one that exited or was killed, reaped by the waiter or not.
C14_SignalOnlyAlive ==
    \A t \in Triggers : lastTerm[t] \notin {"exited", "killed"}

\* trigger t's handle is that of a command cmd.Start failed on
StartFailed(t) == kcmd[t].st = "failed"

\* C15: a failed Start leaves the program and the engine running and the
\* other triggers and the bus as they were; the Stop on the handle of the
\* failed command at the next matching event ends no program and signals no
\* process, and the engine goes on to its sleep, from which the next Start
\* is enabled once the delay has elapsed.
C15_StartFailureNotFatal ==
    [][\A t \in Triggers :
          /\ (nstarts'[t] # nstarts[t] /\ StartFailed(t)') =>
                /\ prog' = "running" /\ pc'[t] = "loop"
                /\ bus' = bus /\ egress' = egress /\ ingress' = ingress
                /\ \A u \in Triggers \ {t} :
                      pc'[u] = pc[u] /\ kcmd'[u] = kcmd[u]
          /\ (StartFailed(t) /\ ReceivesMatch(t)) =>
                /\ prog' = "running" /\ pc'[t] = "sleep"
                /\ kcmd'[t] = NoCmd /\ orphans'[t] = orphans[t]
                /\ lastTerm'[t] = "failed"
          /\ (pc'[t] = "sleep" /\ lastTerm'[t] = "failed"
                 /\ slept'[t] >= DelayOf(t) /\ prog' = "running") =>
                (ENABLED WatchEventWake(t))'
      ]_vars

\* a trigger whose Start failed has stopped on a matching event and slept
\* out its delay
C15_Witness ==
    \E t \in Triggers :
        /\ pc[t] = "sleep" /\ lastTerm[t] = "failed"
        /\ slept[t] >= DelayOf(t) /\ prog = "running"

\* the events that entered the ingress channel, in order
Entered ==
    IF te.pc = "send" THEN SubSeq(accepted, 1, Len(accepted) - 1) ELSE accepted

\* C16: an egress channel is closed only once the ingress is closed and
\* drained and every event that entered it has been written to every egress
\* channel; the bus neither writes to nor closes a closed egress channel.
C16_EgressClosedAfterDrain ==
    /\ (\E t \in Triggers : egress[t].closed) =>
          /\ ingress.closed /\ ingress.buf = <<>>
          /\ bus.pc \in {"close", "done"}
          /\ \A u \in Triggers : recvd[u] \o egress[u].buf = Entered
    /\ bus.pc \in {"send", "close"} => ~egress[bus.i].closed
    /\ bus.pc = "done" => \A t \in Triggers : egress[t].closed

\* every egress channel is closed after an event went through the bus
C16_Witness ==
    /\ \A t \in Triggers : egress[t].closed
    /\ Entered # <<>> /\ bus.pc = "done"

\* Start's goroutine is about to set ProcessState of trigger t's handle
WaiterPending(t) == kcmd[t].st \in {"exited", "killed"} /\ ~kcmd[t].reaped

\* trigger t's engine is about to run Stop, which reads ProcessState
StopPending(t) ==
    /\ pc[t] = "loop"
    /\ \/ egress[t].buf # <<>> /\ Matches(Head(egress[t].buf), Patterns(t))
       \/ egress[t].buf = <<>> /\ egress[t].closed

\* C18: no other task is about to touch a trigger's handle or its exit
\* state when the trigger's engine is about to run Stop on it.
C18_HandleOwnedByEngine ==
    \A t \in Triggers : ~(prog = "running" /\ WaiterPending(t) /\ StopPending(t))

\* C20: the pipeline never sends on the ingress channel after it is closed:
\* the program does not end in the panic of that send.
C20_NoSendOnClosed == prog # "crashed"

\* C19: a notification other than the creation of a directory and the
\* removal of a watched directory goes through IsChanged and is forwarded
\* when IsChanged accepts it.
C19_Classification ==
    [][\A n \in AllNotes :
          (/\ TransformRecv(n.op, n.name, n.isDir, n.stat)
           /\ ~(n.op = "Create" /\ n.isDir)
           /\ ~(n.op = "Remove" /\ n.name \in Dirs /\ n.name \in watches)) =>
              LET r == IsChanged(fileModifyTimeMap, n.name, n.stat)
              IN  /\ fileModifyTimeMap' = r.map
                  /\ r.changed => (accepted' = Append(accepted, n.name)
                                      /\ te'.pc = "send" /\ te'.evt = n.name)
      ]_vars

(***************************************************************************)
(* SpecBus: one more file write than under Spec, the child processes       *)
(* running until they exit by themselves                                   *)
(***************************************************************************)
InitBus == InitProgram(MaxNotify + 1) /\ fix = IdleFix /\ walk = IdleWalk

NextBus ==
    \/ Notify(FileWrites)
    \/ Program
    \/ \E t \in Triggers : ProcExit(t)

SpecBus == InitBus /\ [][NextBus]_vars

\* the bus goroutine is blocked in "eC <- evt" on trigger t's full channel
BusBlockedOn(t) ==
    bus.pc = "send" /\ bus.i = t /\ Len(egress[t].buf) >= ChanCap

\* C17: while a trigger is sleeping out its restart delay the bus is not
\* blocked on it: the event the bus holds goes on to the other triggers.
C17_SleepNeverBlocksBus ==
    \A t \in Triggers :
        (pc[t] = "sleep" /\ slept[t] < DelayOf(t)) => ~BusBlockedOn(t)

(***************************************************************************)
(* SpecWatch: directories below the root come and go while the program     *)
(* runs                                                                    *)
(***************************************************************************)
GitDir == <<".", "git">>

\* the directories the root holds when the program starts
DirNames == Range(TreeChildren(<<>>))

\* os.Stat on a directory that exists, and on a path that is gone
StatDir == [err |-> FALSE, mtime |-> 1000]
StatGone == [err |-> TRUE, mtime |-> ZeroTime]

\* mkdir d: the watcher of the root reports Create, IsDirectory finds it
DirCreated(d) ==
    /\ d \notin disk
    /\ disk' = disk \cup {d}
    /\ TransformStep("Create", d, TRUE, StatDir)

\* rmdir d: the watcher reports Remove
DirRemoved(d) ==
    /\ d \in disk
    /\ disk' = disk \ {d}
    /\ TransformStep("Remove", d, FALSE, StatGone)

\* d is moved out of the root: the watcher reports Rename
DirRenamed(d) ==
    /\ d \in disk
    /\ disk' = disk \ {d}
    /\ TransformStep("Rename", d, FALSE, StatGone)

NextWatch ==
    \/ \E d \in DirNames : DirCreated(d) \/ DirRemoved(d) \/ DirRenamed(d)
    \/ Program
    \/ \E t \in Triggers : ProcExit(t)

SpecWatch == Init /\ [][NextWatch]_vars

\* a directory the walk of ListAllDir leaves out as hidden
IsHiddenDir(p) ==
    LET base == BaseName(p)
    IN  base # <<".">> /\ HasDotPrefix(base)

\* C11: no directory whose base name starts with "." is registered with the
\* watcher, by the initial walk or on a directory-creation notification.
C11_HiddenNeverWatched == \A w \in watches : ~IsHiddenDir(w)

\* C12: a directory-creation notification adds a directory that was neither
\* recorded nor registered to the visits map and to the watcher; the removal
\* of a registered directory takes it out of both.
C12_WatchSetMaintained ==
    [][\A d \in DirNames :
          /\ DirCreated(d) =>
                /\ d \notin watches /\ d \notin visits
                /\ watches' = watches \cup {d} /\ visits' = visits \cup {d}
          /\ (DirRemoved(d) /\ d \in watches) =>
                /\ watches' = watches \ {d} /\ visits' = visits \ {d}
      ]_vars

(***************************************************************************)
(* SpecFix: fixFWConfig on bounded raw configurations                      *)
(***************************************************************************)
DelayStrings ==
    { <<>>, <<"0">>, <<"5", "m", "s">>, <<"-", "5", "m", "s">>,
      <<"+", "5", "m", "s">>, <<"1", "s", "5", "m", "s">>, <<"5">>,
      <<"m", "s">>, <<"5", "x">>, <<"-">> }

SignalNames == {"", "HUP", "SIGKILL", "15", "SIGSIGHUP", "SIG9", "hup", "FOO"}

RawTriggers ==
    { [Name |-> "t", Pattens |-> << <<"*">> >>, Delay |-> d, Signal |-> sg,
       delayDuration |-> 0, killSignal |-> Nil] :
         d \in DelayStrings, sg \in SignalNames }

\* one trigger, or a well-formed first trigger followed by any second one
RawTriggerLists ==
    { <<tg>> : tg \in RawTriggers }
    \cup { <<tg1, tg2>> : tg1 \in { x \in RawTriggers :
                                       /\ x.Delay \in {<<>>, <<"5", "x">>}
                                       /\ x.Signal \in {"", "FOO"} },
                          tg2 \in RawTriggers }

RawConfigs ==
    { [Triggers |-> tgs, WatchPaths |-> wp, WatchDepth |-> wd] :
         tgs \in RawTriggerLists,
         wp \in {<<>>, << <<"a">> >>},
         wd \in {0, 2} }

InitFix ==
    /\ InitRuntime
    /\ walk = IdleWalk
    /\ \E v \in BOOLEAN, in \in RawConfigs :
          fix = [phase |-> "in", visitsNew |-> v, in |-> in,
                 res |-> [err |-> FALSE, out |-> in]]

FixApply ==
    /\ fix.phase = "in"
    /\ fix' = [fix EXCEPT !.phase = "out",
                          !.res = fixFWConfig(fix.visitsNew, fix.in)]
    /\ UNCHANGED <<rtvars, walk>>

SpecFix == InitFix /\ [][FixApply]_vars

\* C8: fix-up fails, or every trigger's termination signal is resolved:
\* an absent name gives SIGHUP and no trigger is left with a nil signal.
C8_SignalResolvedOrFail ==
    (fix.phase = "out" /\ ~fix.res.err) =>
        \A i \in DOMAIN fix.res.out.Triggers :
            /\ fix.res.out.Triggers[i].killSignal # Nil
            /\ fix.in.Triggers[i].Signal = "" =>
                  fix.res.out.Triggers[i].killSignal = "SIGHUP"

\* C9: fix-up fails, or every trigger's delay is parsed and not negative:
\* an absent delay gives 100 ms.
C9_DelayNonNegativeOrFail ==
    (fix.phase = "out" /\ ~fix.res.err) =>
        \A i \in DOMAIN fix.res.out.Triggers :
            /\ fix.res.out.Triggers[i].delayDuration >= 0
            /\ fix.in.Triggers[i].Delay = <<>> =>
                  fix.res.out.Triggers[i].delayDuration = 100

(***************************************************************************)
(* SpecWalk: the initial registration over the directory tree              *)
(***************************************************************************)
\* the deepest watchDepth tried
MaxWatchDepth == 2

RootPaths ==
    { <<".">>, <<"a">>, <<"a", "/">>, <<"/", "a">>, <<".", "/", "a">>,
      <<"/", "a", "/", "b">> }

RootLists ==
    { <<r>> : r \in RootPaths } \cup { <<r1, r2>> : r1, r2 \in RootPaths }

InitWalk ==
    /\ InitRuntime
    /\ fix = IdleFix
    /\ \E ps \in RootLists, d \in 0..MaxWatchDepth :
          walk = [phase |-> "walk", paths |-> ps, depth |-> d, i |-> 1,
                  st |-> [visits |-> {}, added |-> <<>>]]

\* one iteration of "for _, path := range paths"
WalkStep ==
    /\ walk.phase = "walk"
    /\ walk' = [walk EXCEPT
                  !.st = WatchOnePath(walk.paths[walk.i], walk.depth, @),
                  !.i = @ + 1,
                  !.phase = IF walk.i = Len(walk.paths) THEN "done" ELSE "walk"]
    /\ UNCHANGED <<rtvars, fix>>

SpecWalk == InitWalk /\ [][WalkStep]_vars

\* every directory of the tree, by its names below the root
RECURSIVE TreeBelow(_)
TreeBelow(rel) ==
    {rel} \cup UNION { TreeBelow(Append(rel, TreeChildren(rel)[k])) :
                          k \in DOMAIN TreeChildren(rel) }

\* the path of the directory rel below root, in canonical form
RECURSIVE PathOf(_, _)
PathOf(root, rel) ==
    IF rel = <<>> THEN Clean(root)
    ELSE PathOf(Clean(root \o <<Sep>> \o Head(rel)), Tail(rel))

Hidden(rel) == \E k \in DOMAIN rel : HasDotPrefix(rel[k])

\* the directories the depth limit allows below root: nesting depth, the
\* number of names below the root, at most depth, and none of them hidden
WithinDepth(root, depth) ==
    { PathOf(root, rel) : rel \in { r \in TreeBelow(<<>>) :
                                       Len(r) <= depth /\ ~Hidden(r) } }

\* C10: the initial registration registers exactly the roots and the
\* directories nested at most watchDepth below them, for every form of root.
C10_DepthLimit ==
    walk.phase = "done" =>
        { Clean(v) : v \in walk.st.visits }
            = UNION { WithinDepth(walk.paths[k], walk.depth) :
                         k \in DOMAIN walk.paths }

====
